---- MODULE Spec2Model ----
(***************************************************************************)
(* flowwhispr-core audio capture (src/flowwhispr-core/src/audio.rs).       *)
(*                                                                         *)
(* The controller (AudioCapture) is driven by one control thread: every    *)
(* public operation takes &mut self, so controller operations never        *)
(* overlap each other.  Each stream built by start() runs the input        *)
(* callback on a thread of the audio host; callbacks interleave with the   *)
(* steps of the controller operations.  The two shared fields, state and   *)
(* buffer, are each behind their own parking_lot::Mutex; every guard in    *)
(* the source is a temporary of one statement, so a critical section is    *)
(* modelled as two steps: acquire, then act-and-release.                   *)
(*                                                                         *)
(* Samples are f32 values; the model writes a sample as an integer number  *)
(* of quarters (2 is 0.5, -4 is -1.0, 8 is 2.0).  Quarters and their       *)
(* products with 32767 are exact in f32, so integer arithmetic computes    *)
(* what the float code computes.                                           *)
(***************************************************************************)
EXTENDS Integers, Sequences, FiniteSets, TLC

\* ------------------------------------------------------------------ bounds
\* Streams the audio host lets the controller construct in one run.
MaxStreams == 2
\* Chunks the audio host delivers in one run.
MaxChunks == 3

\* Samples in one encoded sequence.
MaxSamples == 3

\* Supported configurations a device enumerates.
MaxConfigs == 2
\* Streams built and chunks delivered where termination is checked.
LiveStreams == 1
LiveChunks == 2
\* Samples queued at first and chunks delivered where a session is drained
\* in pieces.
SplitSamples == 2
SplitChunks == 2

ChunkIds == 1..MaxChunks
StreamIds == 1..MaxStreams

\* Chunk contents a delivery draws from (quarters): [0.5, -0.5] and [2.0].
Chunks == { <<2, -2>>, <<8>> }

\* ------------------------------------------------------------ program state
VARIABLES
  state,      \* AudioCapture.state : CaptureState, behind stateLock
  buffer,     \* AudioCapture.buffer : Vec<f32>; each element carries the id
              \* of the delivery it came from (provenance, not program data)
  stream,     \* AudioCapture.stream : Option<Stream>; 0 is None
  alive,      \* FALSE once the controller has been dropped
  stateLock,  \* holder of the state mutex
  bufLock,    \* holder of the buffer mutex
  cpc,        \* control thread: position inside the running operation
  newStream,  \* start(): the local `stream` (0 when not bound)
  cb,         \* per stream: the input callback's position and its chunk
  built,      \* number of streams the host has constructed so far
  live,       \* streams constructed and not yet released
  relCount,   \* per stream: how many times it has been released
  nchunks,    \* number of chunks delivered so far
  ev,         \* name of the step taken last
  ret,        \* what the last finished controller operation returned
  pre,        \* controller fields at the call of the current operation
  sess,       \* chunks delivered while Recording since the last fresh start
  started,    \* a start() has returned Ok and no stop()/stop_stream()/drop
              \* has returned since
  config,     \* self.config: the requested sample_rate and channels
  drains,     \* history: per chunk, the number of drained AudioData it
              \* appears in
  mono,       \* history: the latest buffer_duration_ms() result since
              \* which the state has stayed Recording, and whether a
              \* drain followed
  neg,        \* with_config(): what was requested, what the host offers
              \* and what construction resolved
  origin,     \* history: per chunk, the stream whose callback received it
  split,      \* history: the samples queued so far and the bytes the
              \* drains have returned so far, each in order
  wk          \* base10 worker: the request being handled, the handler's
              \* position, and what it has read, sent and answered

vars == << state, buffer, stream, alive, stateLock, bufLock, cpc, newStream,
           cb, built, live, relCount, nchunks, ev, ret, pre, sess,
           started, config, drains, mono, neg, origin, split, wk >>

CaptureState == { "Idle", "Recording", "Paused" }

Free == << "free" >>
Ctl == << "ctl" >>
CbThread(s) == << "cb", s >>

CbIdle == [ pc |-> "idle", chunk |-> << >>, id |-> 0 ]

NoRet == [ op |-> "none", ok |-> TRUE, audio |-> << >>, value |-> 0,
           seen |-> "none", earlier |-> -1, drainedSince |-> FALSE ]
NoPre == [ op |-> "none", state |-> "Idle", stream |-> 0, ids |-> {},
           after |-> "none" ]
NoMono == [ v |-> -1, drained |-> FALSE ]
NoSess == [ phase |-> "none", expected |-> << >>, queued |-> << >> ]
NoConfig == [ sample_rate |-> 0, channels |-> 0 ]
NoWk == [ pc |-> "none", method |-> "POST", key |-> "none",
          contentType |-> "none", bodyRead |-> FALSE, sent |-> FALSE,
          auth |-> << >>, upType |-> "none", status |-> 0 ]
NoSplit == [ samples |-> << >>, bytes |-> << >> ]
NoNeg == [ phase |-> "none", device |-> TRUE, listing |-> TRUE,
           req |-> NoConfig, supported |-> << >>, err |-> "none",
           picked |-> 0, resolved |-> NoConfig ]

\* ------------------------------------------------------------------ encoder
\* f32::clamp(-1.0, 1.0) on quarters.
Clamp(q) == IF q < -4 THEN -4 ELSE IF q > 4 THEN 4 ELSE q

\* A cast that rounds to the nearest integer.
ToI16Rounds(q) ==
  LET x == Clamp(q) * 32767
  IN  IF x >= 0 THEN (x + 2) \div 4 ELSE -((-x + 2) \div 4)

\* (clamped * 32767.0) as i16: the cast truncates toward zero.
ToI16(q) ==
  LET x == Clamp(q) * 32767
  IN  IF x >= 0 THEN x \div 4 ELSE -((-x) \div 4)

\* Mutant of ToLeBytes: only the low byte is emitted.
ToLeBytesLowOnly(v) ==
  LET u == IF v < 0 THEN v + 65536 ELSE v
  IN  << u % 256 >>

\* i16::to_le_bytes
ToLeBytes(v) ==
  LET u == IF v < 0 THEN v + 65536 ELSE v
  IN  << u % 256, u \div 256 >>

\* An encoder that emits the samples last to first.
RECURSIVE SamplesToPcmReversed(_)
SamplesToPcmReversed(samples) ==
  IF samples = << >> THEN << >>
  ELSE SamplesToPcmReversed(Tail(samples)) \o ToLeBytes(ToI16(Head(samples)))

\* An encoder that puts the sample count in front of each block it encodes.
RECURSIVE PcmBody(_)
PcmBody(samples) ==
  IF samples = << >> THEN << >>
  ELSE ToLeBytes(ToI16(Head(samples))) \o PcmBody(Tail(samples))
SamplesToPcmFramed(samples) == << Len(samples), 0 >> \o PcmBody(samples)

RECURSIVE SamplesToPcm(_)
SamplesToPcm(samples) ==
  IF samples = << >> THEN << >>
  ELSE ToLeBytes(ToI16(Head(samples))) \o SamplesToPcm(Tail(samples))

\* --------------------------------------------------------- buffer helpers
\* The Vec<f32> held by the buffer, without the provenance ids.
Values(buf) == [ i \in 1..Len(buf) |-> buf[i].v ]
BufIds(buf) == { buf[i].id : i \in 1..Len(buf) }
Tagged(chunk, id) == [ i \in 1..Len(chunk) |-> [ v |-> chunk[i], id |-> id ] ]

\* An append that overwrites what was queued.
ExtendOverwrites(buf, chunk, id) == Tagged(chunk, id)

\* An append that writes the slice twice.
ExtendTwice(buf, chunk, id) == buf \o Tagged(chunk, id) \o Tagged(chunk, id)

\* An append that puts the chunk in front of what was queued.
ExtendAtFront(buf, chunk, id) == Tagged(chunk, id) \o buf

\* Vec::extend_from_slice
ExtendFromSlice(buf, chunk, id) == buf \o Tagged(chunk, id)
\* Mutant of Clear: the buffer is not emptied.
ClearKeeps(buf) == buf

\* Vec::clear
Clear(buf) == << >>

\* Dropping a Stream releases the host subscription (0: nothing to drop).
Release(s) ==
  IF s = 0 THEN /\ UNCHANGED << live, relCount >>
  ELSE /\ live' = live \ { s }
       /\ relCount' = [ relCount EXCEPT ![s] = @ + 1 ]

\* --------------------------------------------------------------- history
\* sess follows one session: "starting" from the clear of a start() that
\* goes on to build a stream, "open" from that start()'s return, through
\* pause(), resume() and deliveries; "closed" once stop() has drained it;
\* "retained" once stop_stream() has ended it with the buffer kept, and
\* "taken" once take_buffered_audio() has then drained it.  queued collects
\* every chunk appended since the clear; expected collects the chunks whose
\* delivery completed while the session was open and the state Recording.
\* Any other operation ends the bookkeeping.
InSession == { "pause", "resume", "stop", "stop_stream" }
AfterStopStream == { "pause", "resume", "stop_stream", "take_buffered_audio" }

Call(op) ==
  /\ pre' = [ op |-> op, state |-> state, stream |-> stream,
              ids |-> BufIds(buffer),
              after |-> IF op # "buffer_duration_ms" THEN "none"
                        ELSE IF ev \in { "Init", "StopTake", "TakeTake" }
                        THEN ev ELSE "other" ]
  /\ ret' = NoRet
  /\ sess' = IF \/ sess.phase = "open" /\ op \in InSession
                \/ sess.phase = "retained" /\ op \in AfterStopStream
             THEN sess ELSE NoSess

Return(op, ok, audio) ==
  ret' = [ NoRet EXCEPT !.op = op, !.ok = ok, !.audio = audio ]

\* The configuration the controller of Spec is constructed with: a rate
\* low enough for a few samples to span whole milliseconds.
SessionConfig == [ sample_rate |-> 375, channels |-> 2 ]

Init ==
  /\ state = "Idle"
  /\ buffer = << >>
  /\ stream = 0
  /\ alive = TRUE
  /\ stateLock = Free
  /\ bufLock = Free
  /\ cpc = "idle"
  /\ newStream = 0
  /\ cb = [ s \in StreamIds |-> CbIdle ]
  /\ built = 0
  /\ live = {}
  /\ relCount = [ s \in StreamIds |-> 0 ]
  /\ nchunks = 0
  /\ ev = "Init"
  /\ ret = NoRet
  /\ pre = NoPre
  /\ sess = NoSess
  /\ started = FALSE
  /\ config = SessionConfig
  /\ drains = [ c \in ChunkIds |-> 0 ]
  /\ mono = NoMono
  /\ neg = NoNeg
  /\ origin = [ c \in ChunkIds |-> 0 ]
  /\ split = NoSplit
  /\ wk = NoWk


\* ---------------------------------------------------------------- frames
host == << built, live, relCount >>
locks == << stateLock, bufLock >>

\* ----------------------------------------------------------------- start
\* Mutant of AlreadyRecording: the early return is never taken.
AlreadyRecordingNever(st) == FALSE

\* `*self.state.lock() == CaptureState::Recording`: already recording?
AlreadyRecording(st) == st = "Recording"

StartLockState ==
  /\ alive /\ cpc = "idle" /\ stateLock = Free
  /\ stateLock' = Ctl
  /\ cpc' = "start_check"
  /\ Call("start")
  /\ ev' = "StartLockState"
  /\ UNCHANGED config
  /\ UNCHANGED started
  /\ UNCHANGED << state, buffer, stream, alive, bufLock, newStream, cb,
                  host, nchunks >>

StartCheck ==
  /\ cpc = "start_check"
  /\ stateLock' = Free
  /\ IF AlreadyRecording(state)
       THEN /\ cpc' = "idle"
            /\ Return("start", TRUE, << >>)
       ELSE /\ cpc' = "start_clear_lock"
            /\ UNCHANGED ret
  /\ ev' = "StartCheck"
  /\ UNCHANGED config
  /\ started' = (started \/ AlreadyRecording(state))
  /\ UNCHANGED << state, buffer, stream, alive, bufLock, newStream, cb,
                  host, nchunks, pre, sess >>

StartLockBuf ==
  /\ cpc = "start_clear_lock" /\ bufLock = Free
  /\ bufLock' = Ctl
  /\ cpc' = "start_clear"
  /\ ev' = "StartLockBuf"
  /\ UNCHANGED config
  /\ UNCHANGED started
  /\ UNCHANGED << state, buffer, stream, alive, stateLock, newStream, cb,
                  host, nchunks, ret, pre, sess >>

StartClear ==
  /\ cpc = "start_clear"
  /\ buffer' = Clear(buffer)
  /\ bufLock' = Free
  /\ cpc' = "start_build"
  /\ sess' = [ NoSess EXCEPT !.phase = "starting" ]
  /\ ev' = "StartClear"
  /\ UNCHANGED config
  /\ UNCHANGED started
  /\ UNCHANGED << state, stream, alive, stateLock, newStream, cb,
                  host, nchunks, ret, pre >>

\* device.build_input_stream(..): the host constructs a stream or refuses.
StartBuild ==
  /\ cpc = "start_build"
  /\ \E ok \in BOOLEAN :
       IF ok
         THEN /\ built < MaxStreams
              /\ built' = built + 1
              /\ live' = live \cup { built + 1 }
              /\ newStream' = built + 1
              /\ cpc' = "start_play"
              /\ UNCHANGED << relCount, ret >>
         ELSE /\ cpc' = "idle"
              /\ Return("start", FALSE, << >>)
              /\ UNCHANGED << host, newStream >>
  /\ sess' = IF ret'.op = "start" THEN NoSess ELSE sess
  /\ ev' = "StartBuild"
  /\ UNCHANGED config
  /\ UNCHANGED started
  /\ UNCHANGED << state, buffer, stream, alive, locks, cb, nchunks, pre >>

\* Mutant of PlayFailed: the stream is stored before it is activated, so a
\* failed activation leaves it in self.stream.
PlayFailedRetains ==
  /\ stream' = newStream
  /\ newStream' = 0
  /\ Release(stream)

\* stream.play() failed: `?` returns, and the local `stream` goes out of
\* scope, which drops it; self.stream is not assigned.
PlayFailed ==
  /\ Release(newStream)
  /\ newStream' = 0
  /\ UNCHANGED stream

StartPlay ==
  /\ cpc = "start_play"
  /\ \E ok \in BOOLEAN :
       IF ok
         THEN /\ cpc' = "start_store"
              /\ UNCHANGED << host, newStream, stream, ret >>
         ELSE /\ PlayFailed
              /\ cpc' = "idle"
              /\ Return("start", FALSE, << >>)
              /\ UNCHANGED built
  /\ sess' = IF ret'.op = "start" THEN NoSess ELSE sess
  /\ ev' = "StartPlay"
  /\ UNCHANGED config
  /\ UNCHANGED started
  /\ UNCHANGED << state, buffer, alive, locks, cb, nchunks, pre >>

\* A store that marks the controller Recording as it keeps the handle.
StartStoreSetsRecording ==
  /\ cpc = "start_store"
  /\ stream' = newStream
  /\ Release(stream)
  /\ newStream' = 0
  /\ state' = "Recording"
  /\ cpc' = "start_set_lock"
  /\ ev' = "StartStore"
  /\ UNCHANGED config
  /\ UNCHANGED started
  /\ UNCHANGED << buffer, alive, locks, cb, built, nchunks, ret, pre, sess >>

\* self.stream = Some(stream): the previous value of the field is dropped.
StartStore ==
  /\ cpc = "start_store"
  /\ stream' = newStream
  /\ Release(stream)
  /\ newStream' = 0
  /\ cpc' = "start_set_lock"
  /\ ev' = "StartStore"
  /\ UNCHANGED config
  /\ UNCHANGED started
  /\ UNCHANGED << state, buffer, alive, locks, cb, built, nchunks, ret,
                  pre, sess >>

StartLockState2 ==
  /\ cpc = "start_set_lock" /\ stateLock = Free
  /\ stateLock' = Ctl
  /\ cpc' = "start_set"
  /\ ev' = "StartLockState2"
  /\ UNCHANGED config
  /\ UNCHANGED started
  /\ UNCHANGED << state, buffer, stream, alive, bufLock, newStream, cb,
                  host, nchunks, ret, pre, sess >>

StartSet ==
  /\ cpc = "start_set"
  /\ state' = "Recording"
  /\ stateLock' = Free
  /\ cpc' = "idle"
  /\ Return("start", TRUE, << >>)
  /\ sess' = [ sess EXCEPT !.phase = "open" ]
  /\ ev' = "StartSet"
  /\ UNCHANGED config
  /\ started' = TRUE
  /\ UNCHANGED << buffer, stream, alive, bufLock, newStream, cb, host,
                  nchunks, pre >>

Start ==
  \/ StartLockState \/ StartCheck \/ StartLockBuf \/ StartClear
  \/ StartBuild \/ StartPlay \/ StartStore \/ StartLockState2 \/ StartSet

\* -------------------------------------------------------- input callback
\* Mutant of CallbackGate: the callback drops samples only while Idle.
CallbackGateNotIdle(st) == st # "Idle"

\* `*state.lock() == CaptureState::Recording`: the callback's gate.
CallbackGate(st) == st = "Recording"

\* The host invokes the callback of a live stream with a chunk of samples.
CbLockState(s) ==
  /\ s \in live /\ cb[s].pc = "idle" /\ nchunks < MaxChunks
  /\ stateLock = Free
  /\ \E chunk \in Chunks :
       cb' = [ cb EXCEPT ![s] = [ pc |-> "check", chunk |-> chunk,
                                  id |-> nchunks + 1 ] ]
  /\ nchunks' = nchunks + 1
  /\ stateLock' = CbThread(s)
  /\ ev' = "CbLockState"
  /\ UNCHANGED config
  /\ UNCHANGED started
  /\ UNCHANGED << state, buffer, stream, alive, bufLock, cpc, newStream,
                  host, ret, pre, sess >>

\* Mutant of CbCheck: the state guard is bound to a local and still held
\* when the callback goes on to lock the buffer.
CbCheckKeepsLock(s) ==
  /\ cb[s].pc = "check"
  /\ stateLock' = IF CallbackGate(state) THEN stateLock ELSE Free
  /\ cb' = [ cb EXCEPT ![s] = IF CallbackGate(state)
                                THEN [ @ EXCEPT !.pc = "want_buf" ]
                                ELSE CbIdle ]
  /\ ev' = "CbCheck"
  /\ UNCHANGED config
  /\ UNCHANGED started
  /\ UNCHANGED << state, buffer, stream, alive, bufLock, cpc, newStream,
                  host, nchunks, ret, pre, sess >>

CbCheck(s) ==
  /\ cb[s].pc = "check"
  /\ stateLock' = Free
  /\ cb' = [ cb EXCEPT ![s] = IF CallbackGate(state)
                                THEN [ @ EXCEPT !.pc = "want_buf" ]
                                ELSE CbIdle ]
  /\ ev' = "CbCheck"
  /\ UNCHANGED config
  /\ UNCHANGED started
  /\ UNCHANGED << state, buffer, stream, alive, bufLock, cpc, newStream,
                  host, nchunks, ret, pre, sess >>

CbLockBuf(s) ==
  /\ cb[s].pc = "want_buf" /\ bufLock = Free
  /\ bufLock' = CbThread(s)
  /\ cb' = [ cb EXCEPT ![s].pc = "append" ]
  /\ ev' = "CbLockBuf"
  /\ UNCHANGED config
  /\ UNCHANGED started
  /\ UNCHANGED << state, buffer, stream, alive, stateLock, cpc, newStream,
                  host, nchunks, ret, pre, sess >>

CbAppend(s) ==
  /\ cb[s].pc = "append"
  /\ buffer' = ExtendFromSlice(buffer, cb[s].chunk, cb[s].id)
  /\ bufLock' = Free
  /\ cb' = [ cb EXCEPT ![s] = CbIdle ]
  /\ sess' = IF sess.phase \in { "starting", "open", "retained" }
             THEN [ sess EXCEPT
                      !.queued = @ \o cb[s].chunk,
                      !.expected = IF sess.phase = "open" /\ state = "Recording"
                                   THEN @ \o cb[s].chunk ELSE @ ]
             ELSE sess
  /\ ev' = "CbAppend"
  /\ UNCHANGED config
  /\ UNCHANGED started
  /\ UNCHANGED << state, stream, alive, stateLock, cpc, newStream, host,
                  nchunks, ret, pre >>

Callback ==
  \E s \in StreamIds :
    CbLockState(s) \/ CbCheck(s) \/ CbLockBuf(s) \/ CbAppend(s)


\* ------------------------------------------------------------------ stop
\* Mutant of MemTake: the samples are cloned and the buffer keeps them.
MemTakeClones(buf) == [ samples |-> buf, left |-> buf ]

\* std::mem::take(&mut *self.buffer.lock()): the samples move out and an
\* empty Vec is left behind.
MemTake(buf) == [ samples |-> buf, left |-> << >> ]

StopLockState ==
  /\ alive /\ cpc = "idle" /\ stateLock = Free
  /\ stateLock' = Ctl
  /\ cpc' = "stop_set"
  /\ Call("stop")
  /\ ev' = "StopLockState"
  /\ UNCHANGED config
  /\ UNCHANGED started
  /\ UNCHANGED << state, buffer, stream, alive, bufLock, newStream, cb,
                  host, nchunks >>

StopSetIdle ==
  /\ cpc = "stop_set"
  /\ state' = "Idle"
  /\ stateLock' = Free
  /\ cpc' = "stop_drop"
  /\ ev' = "StopSetIdle"
  /\ UNCHANGED config
  /\ UNCHANGED started
  /\ UNCHANGED << buffer, stream, alive, bufLock, newStream, cb, host,
                  nchunks, ret, pre, sess >>

\* self.stream = None
StopDrop ==
  /\ cpc = "stop_drop"
  /\ stream' = 0
  /\ Release(stream)
  /\ cpc' = "stop_take_lock"
  /\ ev' = "StopDrop"
  /\ UNCHANGED config
  /\ UNCHANGED started
  /\ UNCHANGED << state, buffer, alive, locks, newStream, cb, built,
                  nchunks, ret, pre, sess >>

StopLockBuf ==
  /\ cpc = "stop_take_lock" /\ bufLock = Free
  /\ bufLock' = Ctl
  /\ cpc' = "stop_take"
  /\ ev' = "StopLockBuf"
  /\ UNCHANGED config
  /\ UNCHANGED started
  /\ UNCHANGED << state, buffer, stream, alive, stateLock, newStream, cb,
                  host, nchunks, ret, pre, sess >>

\* The take, and the encoding of the taken samples (local to the thread)
\* with which stop() returns.
StopTake ==
  /\ cpc = "stop_take"
  /\ LET t == MemTake(buffer)
     IN  /\ buffer' = t.left
         /\ Return("stop", TRUE, SamplesToPcm(Values(t.samples)))
  /\ bufLock' = Free
  /\ cpc' = "idle"
  /\ sess' = IF sess.phase = "open"
             THEN [ sess EXCEPT !.phase = "closed" ] ELSE sess
  /\ ev' = "StopTake"
  /\ UNCHANGED config
  /\ started' = FALSE
  /\ UNCHANGED << state, stream, alive, stateLock, newStream, cb, host,
                  nchunks, pre >>

Stop ==
  \/ StopLockState \/ StopSetIdle \/ StopDrop \/ StopLockBuf \/ StopTake

\* ----------------------------------------------------------- stop_stream
StopStreamLockState ==
  /\ alive /\ cpc = "idle" /\ stateLock = Free
  /\ stateLock' = Ctl
  /\ cpc' = "stop_stream_set"
  /\ Call("stop_stream")
  /\ ev' = "StopStreamLockState"
  /\ UNCHANGED config
  /\ UNCHANGED started
  /\ UNCHANGED << state, buffer, stream, alive, bufLock, newStream, cb,
                  host, nchunks >>

StopStreamSetIdle ==
  /\ cpc = "stop_stream_set"
  /\ state' = "Idle"
  /\ stateLock' = Free
  /\ cpc' = "stop_stream_drop"
  /\ ev' = "StopStreamSetIdle"
  /\ UNCHANGED config
  /\ UNCHANGED started
  /\ UNCHANGED << buffer, stream, alive, bufLock, newStream, cb, host,
                  nchunks, ret, pre, sess >>

\* Mutant of StopStreamDrop: the buffer is cleared with the teardown.
StopStreamDropClears ==
  /\ cpc = "stop_stream_drop"
  /\ stream' = 0
  /\ Release(stream)
  /\ buffer' = << >>
  /\ cpc' = "idle"
  /\ Return("stop_stream", TRUE, << >>)
  /\ sess' = IF sess.phase = "open"
             THEN [ sess EXCEPT !.phase = "retained" ] ELSE sess
  /\ ev' = "StopStreamDrop"
  /\ UNCHANGED config
  /\ started' = FALSE
  /\ UNCHANGED << state, alive, locks, newStream, cb, built, nchunks, pre >>

StopStreamDrop ==
  /\ cpc = "stop_stream_drop"
  /\ stream' = 0
  /\ Release(stream)
  /\ cpc' = "idle"
  /\ Return("stop_stream", TRUE, << >>)
  /\ sess' = IF sess.phase = "open"
             THEN [ sess EXCEPT !.phase = "retained" ] ELSE sess
  /\ ev' = "StopStreamDrop"
  /\ UNCHANGED config
  /\ started' = FALSE
  /\ UNCHANGED << state, buffer, alive, locks, newStream, cb, built,
                  nchunks, pre >>

StopStream == StopStreamLockState \/ StopStreamSetIdle \/ StopStreamDrop

\* --------------------------------------------------- take_buffered_audio
TakeLockBuf ==
  /\ alive /\ cpc = "idle" /\ bufLock = Free
  /\ bufLock' = Ctl
  /\ cpc' = "take_take"
  /\ Call("take_buffered_audio")
  /\ ev' = "TakeLockBuf"
  /\ UNCHANGED config
  /\ UNCHANGED started
  /\ UNCHANGED << state, buffer, stream, alive, stateLock, newStream, cb,
                  host, nchunks >>

\* A take that also drops the stream and goes Idle, as stop() does.
TakeTakeStops ==
  /\ cpc = "take_take"
  /\ LET t == MemTake(buffer)
     IN  /\ buffer' = t.left
         /\ Return("take_buffered_audio", TRUE,
                   SamplesToPcm(Values(t.samples)))
  /\ bufLock' = Free
  /\ cpc' = "idle"
  /\ sess' = IF sess.phase = "retained"
             THEN [ sess EXCEPT !.phase = "taken" ] ELSE sess
  /\ ev' = "TakeTake"
  /\ UNCHANGED config
  /\ state' = "Idle"
  /\ stream' = 0
  /\ Release(stream)
  /\ UNCHANGED started
  /\ UNCHANGED << alive, stateLock, newStream, cb, built, nchunks, pre >>

\* A take whose buffer guard outlives the call.
TakeTakeKeepsGuard ==
  /\ cpc = "take_take"
  /\ LET t == MemTake(buffer)
     IN  /\ buffer' = t.left
         /\ Return("take_buffered_audio", TRUE,
                   SamplesToPcm(Values(t.samples)))
  /\ UNCHANGED bufLock
  /\ cpc' = "idle"
  /\ sess' = IF sess.phase = "retained"
             THEN [ sess EXCEPT !.phase = "taken" ] ELSE sess
  /\ ev' = "TakeTake"
  /\ UNCHANGED config
  /\ UNCHANGED started
  /\ UNCHANGED << state, stream, alive, stateLock, newStream, cb, host,
                  nchunks, pre >>

TakeTake ==
  /\ cpc = "take_take"
  /\ LET t == MemTake(buffer)
     IN  /\ buffer' = t.left
         /\ Return("take_buffered_audio", TRUE,
                   SamplesToPcm(Values(t.samples)))
  /\ bufLock' = Free
  /\ cpc' = "idle"
  /\ sess' = IF sess.phase = "retained"
             THEN [ sess EXCEPT !.phase = "taken" ] ELSE sess
  /\ ev' = "TakeTake"
  /\ UNCHANGED config
  /\ UNCHANGED started
  /\ UNCHANGED << state, stream, alive, stateLock, newStream, cb, host,
                  nchunks, pre >>

TakeBufferedAudio == TakeLockBuf \/ TakeTake

\* ---------------------------------------------------------- pause, resume
PauseLockState ==
  /\ alive /\ cpc = "idle" /\ stateLock = Free
  /\ stateLock' = Ctl
  /\ cpc' = "pause_set"
  /\ Call("pause")
  /\ ev' = "PauseLockState"
  /\ UNCHANGED config
  /\ UNCHANGED started
  /\ UNCHANGED << state, buffer, stream, alive, bufLock, newStream, cb,
                  host, nchunks >>

\* Mutant of PauseSet: pausing also stops the stream.
PauseSetDropsStream ==
  /\ cpc = "pause_set"
  /\ state' = "Paused"
  /\ stateLock' = Free
  /\ stream' = 0
  /\ Release(stream)
  /\ cpc' = "idle"
  /\ Return("pause", TRUE, << >>)
  /\ ev' = "PauseSet"
  /\ UNCHANGED config
  /\ UNCHANGED started
  /\ UNCHANGED << buffer, alive, bufLock, newStream, cb, built, nchunks,
                  pre, sess >>

PauseSet ==
  /\ cpc = "pause_set"
  /\ state' = "Paused"
  /\ stateLock' = Free
  /\ cpc' = "idle"
  /\ Return("pause", TRUE, << >>)
  /\ ev' = "PauseSet"
  /\ UNCHANGED config
  /\ UNCHANGED started
  /\ UNCHANGED << buffer, stream, alive, bufLock, newStream, cb, host,
                  nchunks, pre, sess >>

Pause == PauseLockState \/ PauseSet

ResumeLockState ==
  /\ alive /\ cpc = "idle" /\ stateLock = Free
  /\ stateLock' = Ctl
  /\ cpc' = "resume_set"
  /\ Call("resume")
  /\ ev' = "ResumeLockState"
  /\ UNCHANGED config
  /\ UNCHANGED started
  /\ UNCHANGED << state, buffer, stream, alive, bufLock, newStream, cb,
                  host, nchunks >>

ResumeSet ==
  /\ cpc = "resume_set"
  /\ state' = "Recording"
  /\ stateLock' = Free
  /\ cpc' = "idle"
  /\ Return("resume", TRUE, << >>)
  /\ ev' = "ResumeSet"
  /\ UNCHANGED config
  /\ UNCHANGED started
  /\ UNCHANGED << buffer, stream, alive, bufLock, newStream, cb, host,
                  nchunks, pre, sess >>

Resume == ResumeLockState \/ ResumeSet

\* ------------------------------------------------- impl Drop for AudioCapture
DropLockState ==
  /\ alive /\ cpc = "idle" /\ stateLock = Free
  /\ stateLock' = Ctl
  /\ cpc' = "drop_set"
  /\ Call("drop")
  /\ ev' = "DropLockState"
  /\ UNCHANGED config
  /\ UNCHANGED started
  /\ UNCHANGED << state, buffer, stream, alive, bufLock, newStream, cb,
                  host, nchunks >>

DropSetIdle ==
  /\ cpc = "drop_set"
  /\ state' = "Idle"
  /\ stateLock' = Free
  /\ cpc' = "drop_stream"
  /\ ev' = "DropSetIdle"
  /\ UNCHANGED config
  /\ UNCHANGED started
  /\ UNCHANGED << buffer, stream, alive, bufLock, newStream, cb, host,
                  nchunks, ret, pre, sess >>

\* Mutant of DropStream: the stream is leaked instead of dropped.
DropStreamLeaks ==
  /\ cpc = "drop_stream"
  /\ stream' = 0
  /\ alive' = FALSE
  /\ cpc' = "idle"
  /\ Return("drop", TRUE, << >>)
  /\ ev' = "DropStream"
  /\ UNCHANGED config
  /\ started' = FALSE
  /\ UNCHANGED << state, buffer, locks, newStream, cb, host, nchunks,
                  pre, sess >>

DropStream ==
  /\ cpc = "drop_stream"
  /\ stream' = 0
  /\ Release(stream)
  /\ alive' = FALSE
  /\ cpc' = "idle"
  /\ Return("drop", TRUE, << >>)
  /\ ev' = "DropStream"
  /\ UNCHANGED config
  /\ started' = FALSE
  /\ UNCHANGED << state, buffer, locks, newStream, cb, built, nchunks,
                  pre, sess >>

Drop == DropLockState \/ DropSetIdle \/ DropStream

\* ------------------------------------------------------- specifications
\* ----------------------------------------------------------------- state
StateLockState ==
  /\ alive /\ cpc = "idle" /\ stateLock = Free
  /\ stateLock' = Ctl
  /\ cpc' = "state_read"
  /\ Call("state")
  /\ ev' = "StateLockState"
  /\ UNCHANGED config
  /\ UNCHANGED started
  /\ UNCHANGED << state, buffer, stream, alive, bufLock, newStream, cb,
                  host, nchunks >>

\* A read that takes the value out and leaves the default, Idle.
StateReadTakes ==
  /\ cpc = "state_read"
  /\ ret' = [ NoRet EXCEPT !.op = "state", !.seen = state ]
  /\ state' = "Idle"
  /\ stateLock' = Free
  /\ cpc' = "idle"
  /\ ev' = "StateRead"
  /\ UNCHANGED config
  /\ UNCHANGED started
  /\ UNCHANGED << buffer, stream, alive, bufLock, newStream, cb,
                  host, nchunks, pre, sess >>

\* *self.state.lock(): the value is copied out and the guard dropped.
StateRead ==
  /\ cpc = "state_read"
  /\ ret' = [ NoRet EXCEPT !.op = "state", !.seen = state ]
  /\ stateLock' = Free
  /\ cpc' = "idle"
  /\ ev' = "StateRead"
  /\ UNCHANGED config
  /\ UNCHANGED started
  /\ UNCHANGED << state, buffer, stream, alive, bufLock, newStream, cb,
                  host, nchunks, pre, sess >>

State == StateLockState \/ StateRead

\* --------------------------------------------------- buffer_duration_ms
\* A divisor that leaves one channel out.
DivisorDropsChannel(cfg) == cfg.sample_rate * (cfg.channels - 1)

\* A divisor that ignores the channel count.
DivisorIgnoresChannels(cfg) == cfg.sample_rate

\* self.config.sample_rate as u64 * self.config.channels as u64
Divisor(cfg) == cfg.sample_rate * cfg.channels

\* (samples as u64 * 1000) / divisor: integer division, which panics on a
\* zero divisor.
DurationMs(samples, cfg) ==
  IF Divisor(cfg) = 0
  THEN [ ok |-> FALSE, value |-> 0 ]
  ELSE [ ok |-> TRUE, value |-> (samples * 1000) \div Divisor(cfg) ]

DurationLockBuf ==
  /\ alive /\ cpc = "idle" /\ bufLock = Free
  /\ bufLock' = Ctl
  /\ cpc' = "duration_len"
  /\ Call("buffer_duration_ms")
  /\ ev' = "DurationLockBuf"
  /\ UNCHANGED config
  /\ UNCHANGED started
  /\ UNCHANGED << state, buffer, stream, alive, stateLock, newStream, cb,
                  host, nchunks >>

\* self.buffer.lock().len(), the guard dropped, and the division.
DurationRead ==
  /\ cpc = "duration_len"
  /\ LET d == DurationMs(Len(buffer), config)
     IN  /\ ret' = [ NoRet EXCEPT !.op = "buffer_duration_ms", !.ok = d.ok,
                                  !.value = d.value, !.earlier = mono.v,
                                  !.drainedSince = mono.drained ]
  /\ bufLock' = Free
  /\ cpc' = "idle"
  /\ ev' = "DurationRead"
  /\ UNCHANGED config
  /\ UNCHANGED started
  /\ UNCHANGED << state, buffer, stream, alive, stateLock, newStream, cb,
                  host, nchunks, pre, sess >>

BufferDurationMs == DurationLockBuf \/ DurationRead

\* The operations of the controller and the host's callback.  The history
\* variables drains, mono, origin and split are written by none of them, and neg
\* by construction only: a specification either leaves them alone or has
\* them follow the steps.
hist == << drains, mono, neg, origin, split, wk >>

Next ==
  \/ Start \/ Stop \/ StopStream \/ TakeBufferedAudio
  \/ Pause \/ Resume \/ Drop \/ Callback

Spec == Init /\ [][Next /\ UNCHANGED hist]_vars

\* drains follows the drains: every chunk with a sample among those a drain
\* takes is counted once more.
DrainEvents == { "StopTake", "TakeTake" }

DrainsStep ==
  drains' = IF ev' \in DrainEvents
            THEN [ c \in ChunkIds |->
                     IF c \in BufIds(MemTake(buffer).samples)
                     THEN drains[c] + 1 ELSE drains[c] ]
            ELSE drains

\* The callback against the operations that drain or clear the buffer or
\* release the stream.
RaceNext ==
  /\ Start \/ Stop \/ StopStream \/ TakeBufferedAudio \/ Callback
  /\ DrainsStep
  /\ UNCHANGED << mono, neg, origin, split, wk >>

RaceSpec == Init /\ [][RaceNext]_vars

\* mono follows buffer_duration_ms(): it holds the latest result while the
\* state stays Recording, and notes a take_buffered_audio() made since.
MonoStep ==
  mono' = IF state' # "Recording" THEN NoMono
          ELSE IF ev' = "DurationRead"
          THEN IF ret'.ok THEN [ v |-> ret'.value, drained |-> FALSE ]
               ELSE NoMono
          ELSE IF ev' = "TakeTake" /\ mono.v >= 0
          THEN [ mono EXCEPT !.drained = TRUE ]
          ELSE mono

\* Buffers of k delivered chunks, the chunks numbered in delivery order.
RECURSIVE BuffersOf(_)
BuffersOf(k) ==
  IF k = 0 THEN { << >> }
  ELSE { ExtendFromSlice(b, chunk, k) : b \in BuffersOf(k - 1),
                                        chunk \in Chunks }

\* Requested configurations a host accepts: with_config() looks for a
\* supported range with this channel count that contains the rate.
SampleRates == { 375, 8000, 16000 }
ChannelCounts == { 1, 2 }
Configs == [ sample_rate : SampleRates, channels : ChannelCounts ]

\* A controller in any state it can be brought to, with or without a live
\* stream, holding a buffer of delivered chunks, for every configuration.
DurInit ==
  /\ config \in Configs
  /\ state \in CaptureState
  /\ \E k \in 0..MaxChunks : nchunks = k /\ buffer \in BuffersOf(k)
  /\ \E s \in { 0, 1 } :
       /\ stream = s /\ built = s /\ live = { s } \ { 0 }
       /\ started = (s # 0)
  /\ alive = TRUE
  /\ stateLock = Free
  /\ bufLock = Free
  /\ cpc = "idle"
  /\ newStream = 0
  /\ cb = [ s \in StreamIds |-> CbIdle ]
  /\ relCount = [ s \in StreamIds |-> 0 ]
  /\ ev = "DurInit"
  /\ ret = NoRet
  /\ pre = NoPre
  /\ sess = NoSess
  /\ drains = [ c \in ChunkIds |-> 0 ]
  /\ mono = NoMono
  /\ neg = NoNeg
  /\ origin = [ c \in ChunkIds |-> 0 ]
  /\ split = NoSplit
  /\ wk = NoWk

\* The operations that return no Result.
DurNext ==
  \/ Stop \/ StopStream \/ TakeBufferedAudio \/ Pause \/ Resume
  \/ State \/ BufferDurationMs

DurSpec == DurInit /\ [][DurNext /\ UNCHANGED hist]_vars

\* Sample values (quarters) from below -1.0 to above 1.0.
SampleValues == { -8, -4, -2, -1, 0, 1, 2, 4, 8 }

\* The sequences of at most n sample values.
RECURSIVE SampleSeqs(_)
SampleSeqs(n) ==
  IF n = 0 THEN { << >> }
  ELSE SampleSeqs(n - 1)
         \cup { Append(q, v) : q \in { r \in SampleSeqs(n - 1) : Len(r) = n - 1 },
                               v \in SampleValues }

\* An idle controller whose buffer holds any one delivered sample sequence.
EncInit ==
  /\ \E q \in SampleSeqs(MaxSamples) :
       /\ buffer = Tagged(q, 1)
       /\ nchunks = IF q = << >> THEN 0 ELSE 1
  /\ state = "Idle"
  /\ stream = 0
  /\ alive = TRUE
  /\ stateLock = Free
  /\ bufLock = Free
  /\ cpc = "idle"
  /\ newStream = 0
  /\ cb = [ s \in StreamIds |-> CbIdle ]
  /\ built = 0
  /\ live = {}
  /\ relCount = [ s \in StreamIds |-> 0 ]
  /\ ev = "EncInit"
  /\ ret = NoRet
  /\ pre = NoPre
  /\ sess = NoSess
  /\ started = FALSE
  /\ config = SessionConfig
  /\ drains = [ c \in ChunkIds |-> 0 ]
  /\ mono = NoMono
  /\ neg = NoNeg
  /\ origin = [ c \in ChunkIds |-> 0 ]
  /\ split = NoSplit
  /\ wk = NoWk

\* samples_to_pcm is private: it runs on what a drain takes.
EncNext == TakeBufferedAudio

EncSpec == EncInit /\ [][EncNext /\ UNCHANGED hist]_vars

\* ------------------------------------------------------------ with_config
\* A filter that looks at the channel count only.
ChannelsMatch(c, req) == c.channels = req.channels

\* .filter(|c| c.channels() == config.channels
\*              && c.sample_format() == SampleFormat::F32)
FormatMatches(c, req) == c.channels = req.channels /\ c.format = "F32"

\* .find(|c| c.min_sample_rate() <= config.sample_rate
\*            && c.max_sample_rate() >= config.sample_rate)
RateInRange(c, req) == c.min <= req.sample_rate /\ c.max >= req.sample_rate

\* Iterator::find over the filtered enumeration: the place in the
\* enumeration of the first configuration that passes, 0 when none does.
RECURSIVE FindFrom(_, _, _)
FindFrom(i, req, sup) ==
  IF i > Len(sup) THEN 0
  ELSE IF FormatMatches(sup[i], req) /\ RateInRange(sup[i], req) THEN i
  ELSE FindFrom(i + 1, req, sup)

\* with_config() up to the construction of Self: the device, the
\* enumeration, the search, and with_sample_rate(..).config().
Negotiate(device, listing, req, sup) ==
  IF ~device
  THEN [ ok |-> FALSE, err |-> "no_device", picked |-> 0,
         resolved |-> NoConfig ]
  ELSE IF ~listing
  THEN [ ok |-> FALSE, err |-> "configs_failed", picked |-> 0,
         resolved |-> NoConfig ]
  ELSE LET k == FindFrom(1, req, sup)
       IN  IF k = 0
           THEN [ ok |-> FALSE, err |-> "no_supported_config", picked |-> 0,
                  resolved |-> NoConfig ]
           ELSE [ ok |-> TRUE, err |-> "none", picked |-> k,
                  resolved |-> [ sample_rate |-> req.sample_rate,
                                 channels |-> sup[k].channels ] ]

\* A construction that opens the stream at once.
WithConfigOpensStream ==
  /\ neg.phase = "requested"
  /\ LET r == Negotiate(neg.device, neg.listing, neg.req, neg.supported)
     IN  /\ neg' = [ neg EXCEPT !.phase = IF r.ok THEN "built" ELSE "failed",
                                !.err = r.err, !.picked = r.picked,
                                !.resolved = r.resolved ]
         /\ alive' = r.ok
         /\ IF r.ok
            THEN /\ config' = neg.req
                 /\ state' = "Idle"
                 /\ buffer' = << >>
                 /\ stream' = 1
                 /\ built' = 1
                 /\ live' = { 1 }
            ELSE UNCHANGED << config, state, buffer, stream, built, live >>
  /\ ev' = "WithConfig"
  /\ UNCHANGED << stateLock, bufLock, cpc, newStream, cb, relCount, nchunks,
                  ret, pre, sess, started, drains, mono, origin, split,
                  wk >>

\* with_config(): on an error nothing is constructed; otherwise Self holds
\* the requested config, an Idle state, an empty buffer and no stream.
WithConfig ==
  /\ neg.phase = "requested"
  /\ LET r == Negotiate(neg.device, neg.listing, neg.req, neg.supported)
     IN  /\ neg' = [ neg EXCEPT !.phase = IF r.ok THEN "built" ELSE "failed",
                                !.err = r.err, !.picked = r.picked,
                                !.resolved = r.resolved ]
         /\ alive' = r.ok
         /\ IF r.ok
            THEN /\ config' = neg.req
                 /\ state' = "Idle"
                 /\ buffer' = << >>
                 /\ stream' = 0
            ELSE UNCHANGED << config, state, buffer, stream >>
  /\ ev' = "WithConfig"
  /\ UNCHANGED << stateLock, bufLock, cpc, newStream, cb, built, live,
                  relCount, nchunks, ret, pre, sess, started, drains, mono,
                  origin, split, wk >>

\* What a caller may request and what a device may enumerate.
Requests == [ sample_rate : { 8000, 16000, 48000 }, channels : { 1, 2 } ]
RateRanges == { << 8000, 16000 >>, << 16000, 48000 >>, << 44100, 48000 >> }
Supported ==
  { [ channels |-> ch, format |-> f, min |-> r[1], max |-> r[2] ] :
      ch \in { 1, 2 }, f \in { "F32", "I16" }, r \in RateRanges }

\* The enumerations of at most n supported configurations.
RECURSIVE Enumerations(_)
Enumerations(n) ==
  IF n = 0 THEN { << >> }
  ELSE Enumerations(n - 1)
         \cup { Append(q, c) :
                  q \in { r \in Enumerations(n - 1) : Len(r) = n - 1 },
                  c \in Supported }

\* Before construction: there is no controller yet.
Unconstructed ==
  /\ state = "Idle"
  /\ buffer = << >>
  /\ stream = 0
  /\ alive = FALSE
  /\ stateLock = Free
  /\ bufLock = Free
  /\ cpc = "idle"
  /\ newStream = 0
  /\ cb = [ s \in StreamIds |-> CbIdle ]
  /\ built = 0
  /\ live = {}
  /\ relCount = [ s \in StreamIds |-> 0 ]
  /\ nchunks = 0
  /\ ev = "Request"
  /\ ret = NoRet
  /\ pre = NoPre
  /\ sess = NoSess
  /\ started = FALSE
  /\ config = NoConfig
  /\ drains = [ c \in ChunkIds |-> 0 ]
  /\ mono = NoMono
  /\ origin = [ c \in ChunkIds |-> 0 ]
  /\ split = NoSplit
  /\ wk = NoWk

\* Every request against every host.
NegInit ==
  /\ Unconstructed
  /\ \E d \in BOOLEAN, l \in BOOLEAN, req \in Requests,
        sup \in Enumerations(MaxConfigs) :
       neg = [ NoNeg EXCEPT !.phase = "requested", !.device = d,
                            !.listing = l, !.req = req, !.supported = sup ]

NegNext == WithConfig

NegSpec == NegInit /\ [][NegNext]_vars

\* Three hosts: no input device, a device that offers only 16-bit samples,
\* and a device that offers 32-bit float at the requested rate.
CtorHosts ==
  { [ device |-> FALSE, supported |-> << >> ],
    [ device |-> TRUE,
      supported |-> << [ channels |-> 1, format |-> "I16", min |-> 8000,
                         max |-> 48000 ] >> ],
    [ device |-> TRUE,
      supported |-> << [ channels |-> 1, format |-> "F32", min |-> 8000,
                         max |-> 48000 ] >> ] }

CtorInit ==
  /\ Unconstructed
  /\ \E h \in CtorHosts :
       neg = [ NoNeg EXCEPT !.phase = "requested", !.device = h.device,
                            !.req = [ sample_rate |-> 16000, channels |-> 1 ],
                            !.supported = h.supported ]

\* Construction, then the controller's operations and the callback.
CtorNext ==
  \/ WithConfig
  \/ /\ Start \/ Stop \/ StopStream \/ TakeBufferedAudio \/ Callback
     /\ UNCHANGED hist

CtorSpec == CtorInit /\ [][CtorNext]_vars

\* The controller with buffer_duration_ms() as well.
ObsNext == Next \/ BufferDurationMs

ObsSpec == Init /\ [][ObsNext /\ UNCHANGED hist]_vars

\* buffer_duration_ms() against the callback and the operations that leave
\* the stream in place.
MonoNext ==
  /\ \/ Start \/ TakeBufferedAudio \/ Pause \/ Resume \/ Callback
     \/ BufferDurationMs
  /\ MonoStep
  /\ UNCHANGED << drains, neg, origin, split, wk >>

MonoSpec == Init /\ [][MonoNext]_vars

\* Callback deliveries run to completion between controller operations:
\* a callback and a controller operation are never in progress together.
\* ------------------------------------------------------------ base10 worker
\* The controller's variables, which the worker does not touch.
capture ==
  << state, buffer, stream, alive, stateLock, bufLock, cpc, newStream, cb,
     built, live, relCount, nchunks, ev, ret, pre, sess, started, config,
     drains, mono, neg, origin, split >>

\* A gate that lets every method through.
MethodAllowedAny(m) == TRUE

\* req.method() != Method::Post
MethodAllowed(m) == m = "POST"

\* format!("Api-Key {}", api_key)
AuthHeader(key) == << "Api-Key", key >>

\* if req.method() != Method::Post { return Response::error(.., 405) }
WkMethod ==
  /\ wk.pc = "method"
  /\ wk' = IF MethodAllowed(wk.method)
           THEN [ wk EXCEPT !.pc = "key" ]
           ELSE [ wk EXCEPT !.pc = "done", !.status = 405 ]
  /\ UNCHANGED capture

\* match env.var("BASETEN_API_KEY"): Err(_) answers 500.
WkKey ==
  /\ wk.pc = "key"
  /\ wk' = IF wk.key # "none"
           THEN [ wk EXCEPT !.pc = "body" ]
           ELSE [ wk EXCEPT !.pc = "done", !.status = 500 ]
  /\ UNCHANGED capture

\* req.bytes().await?: the body is read; an error leaves the handler.
WkBody ==
  /\ wk.pc = "body"
  /\ \E ok \in BOOLEAN :
       wk' = [ wk EXCEPT !.bodyRead = TRUE,
                         !.pc = IF ok THEN "build" ELSE "failed" ]
  /\ UNCHANGED capture

\* The upstream request: method POST, the body, the Authorization header
\* and the caller's Content-Type or application/json; each `?` may leave
\* the handler with the error.
WkBuild ==
  /\ wk.pc = "build"
  /\ \E ok \in BOOLEAN :
       wk' = IF ok
             THEN [ wk EXCEPT !.pc = "send",
                              !.auth = AuthHeader(wk.key),
                              !.upType = IF wk.contentType # "none"
                                         THEN wk.contentType
                                         ELSE "application/json" ]
             ELSE [ wk EXCEPT !.pc = "failed" ]
  /\ UNCHANGED capture

\* What the upstream service may answer.
UpstreamStatuses == { 200, 401, 500 }

\* Fetch::Request(upstream).send().await: the request goes out, and the
\* handler returns the upstream response or the fetch error.
WkSend ==
  /\ wk.pc = "send"
  /\ \/ \E st \in UpstreamStatuses :
          wk' = [ wk EXCEPT !.sent = TRUE, !.pc = "done", !.status = st ]
     \/ wk' = [ wk EXCEPT !.sent = TRUE, !.pc = "failed" ]
  /\ UNCHANGED capture

\* The requests and environments the handler may be invoked with.
Methods == { "GET", "POST", "PUT", "OPTIONS" }
ApiKeys == { "none", "k1", "k2" }
ContentTypes == { "none", "audio/wav", "application/json" }

WorkerInit ==
  /\ \E m \in Methods, k \in ApiKeys, ct \in ContentTypes :
       wk = [ NoWk EXCEPT !.pc = "method", !.method = m, !.key = k,
                          !.contentType = ct ]
  /\ state = "Idle"
  /\ buffer = << >>
  /\ stream = 0
  /\ alive = FALSE
  /\ stateLock = Free
  /\ bufLock = Free
  /\ cpc = "idle"
  /\ newStream = 0
  /\ cb = [ s \in StreamIds |-> CbIdle ]
  /\ built = 0
  /\ live = {}
  /\ relCount = [ s \in StreamIds |-> 0 ]
  /\ nchunks = 0
  /\ ev = "Fetch"
  /\ ret = NoRet
  /\ pre = NoPre
  /\ sess = NoSess
  /\ started = FALSE
  /\ config = NoConfig
  /\ drains = [ c \in ChunkIds |-> 0 ]
  /\ mono = NoMono
  /\ neg = NoNeg
  /\ origin = [ c \in ChunkIds |-> 0 ]
  /\ split = NoSplit

WorkerNext == WkMethod \/ WkKey \/ WkBody \/ WkBuild \/ WkSend

WorkerSpec == WorkerInit /\ [][WorkerNext]_vars

\* split follows the samples the callback appends and the bytes the drains
\* return.
SplitStep ==
  split' = IF ev' = "CbAppend"
           THEN [ split EXCEPT !.samples =
                    @ \o Values(SubSeq(buffer', Len(buffer) + 1,
                                       Len(buffer'))) ]
           ELSE IF ev' \in DrainEvents
           THEN [ split EXCEPT !.bytes = @ \o ret'.audio ]
           ELSE split

\* A Recording controller with a live stream whose buffer holds any one
\* delivered sample sequence.
SplitInit ==
  /\ \E q \in SampleSeqs(SplitSamples) :
       /\ buffer = Tagged(q, 1)
       /\ nchunks = 1
       /\ split = [ samples |-> q, bytes |-> << >> ]
  /\ state = "Recording"
  /\ stream = 1
  /\ alive = TRUE
  /\ stateLock = Free
  /\ bufLock = Free
  /\ cpc = "idle"
  /\ newStream = 0
  /\ cb = [ s \in StreamIds |-> CbIdle ]
  /\ built = 1
  /\ live = { 1 }
  /\ relCount = [ s \in StreamIds |-> 0 ]
  /\ ev = "SplitInit"
  /\ ret = NoRet
  /\ pre = NoPre
  /\ sess = NoSess
  /\ started = TRUE
  /\ config = SessionConfig
  /\ drains = [ c \in ChunkIds |-> 0 ]
  /\ mono = NoMono
  /\ neg = NoNeg
  /\ origin = [ c \in ChunkIds |-> 0 ]
  /\ wk = NoWk

\* One session drained by take_buffered_audio() calls and a stop(), the
\* callback delivering in between calls.
SplitNext ==
  /\ TakeBufferedAudio \/ Stop \/ Callback
  /\ ~(cpc' # "idle" /\ \E s \in StreamIds : cb'[s].pc # "idle")
  /\ nchunks' <= SplitChunks
  /\ SplitStep
  /\ UNCHANGED << drains, mono, neg, origin, wk >>

SplitSpec == SplitInit /\ [][SplitNext]_vars

\* origin[c] is the stream whose callback was invoked with chunk c (0: not
\* delivered yet); the chunk ids count the deliveries in their order.
OriginStep ==
  origin' = IF ev' = "CbLockState"
            THEN [ origin EXCEPT ![nchunks'] =
                     CHOOSE s \in StreamIds : cb'[s] # cb[s] ]
            ELSE origin

\* The callback against start(), stop(), stop_stream() and
\* take_buffered_audio(), with the drains and the deliveries recorded.
OrderNext ==
  /\ Start \/ Stop \/ StopStream \/ TakeBufferedAudio \/ Callback
  /\ DrainsStep
  /\ OriginStep
  /\ UNCHANGED << mono, neg, split, wk >>

OrderSpec == Init /\ [][OrderNext]_vars

\* The control thread running start(), stop() and take_buffered_audio()
\* against the callback.
LiveNext ==
  /\ Start \/ Stop \/ TakeBufferedAudio \/ Callback
  /\ built' <= LiveStreams /\ nchunks' <= LiveChunks
  /\ UNCHANGED hist

\* A step of the operation the control thread is in.
CtlStep ==
  /\ cpc # "idle"
  /\ Start \/ Stop \/ TakeBufferedAudio
  /\ built' <= LiveStreams
  /\ UNCHANGED hist

\* A step of the invocation the callback of stream s is in.
CbStep(s) ==
  /\ CbCheck(s) \/ CbLockBuf(s) \/ CbAppend(s)
  /\ UNCHANGED hist

\* Both threads are scheduled fairly, and a thread waiting for a mutex that
\* is released again and again gets it (parking_lot forces a fair hand-over
\* to a waiting thread).
LiveSpec ==
  /\ Init
  /\ [][LiveNext]_vars
  /\ SF_vars(CtlStep)
  /\ \A s \in StreamIds : SF_vars(CbStep(s))

CallbackBusy == \E s \in StreamIds : cb[s].pc # "idle"
Sequential == ~(cpc # "idle" /\ CallbackBusy)

SeqNext == Next /\ Sequential' /\ UNCHANGED hist

SeqSpec == Init /\ [][SeqNext]_vars


\* ------------------------------------------------------ names of the steps
StartSteps == { "StartLockState", "StartCheck", "StartLockBuf", "StartClear",
                "StartBuild", "StartPlay", "StartStore", "StartLockState2",
                "StartSet" }
StopStreamSteps == { "StopStreamLockState", "StopStreamSetIdle",
                     "StopStreamDrop" }
DrainSteps == { "StopTake", "TakeTake" }

\* ==================================================================== C1
\* C1: whenever the callback appends a chunk to the buffer, CaptureState is
\* Recording at that instant (no append while Idle or Paused), under every
\* interleaving of the callback with the controller operations.
C1_AppendOnlyWhileRecording == ev = "CbAppend" => state = "Recording"

\* ==================================================================== C2
\* C2: when callback deliveries run to completion between controller
\* operations, a stop() that ends a session start(); {delivery | pause() |
\* resume()}*; returns exactly the encoding of the chunks delivered while
\* the state was Recording, in delivery order; chunks delivered while
\* Paused are in no drain.
C2_StopReturnsRecordedChunks ==
  (ev = "StopTake" /\ sess.phase = "closed")
    => /\ ret.op = "stop" /\ ret.ok
       /\ ret.audio = SamplesToPcm(sess.expected)
       /\ buffer = << >>

\* The spec's scenario: [0.5, -0.5] recorded, a chunk dropped while Paused,
\* [2.0] recorded after resume(): three deliveries, three samples, 6 bytes.
C2_Witness ==
  /\ ev = "StopTake" /\ sess.phase = "closed"
  /\ built = 1 /\ nchunks = 3
  /\ sess.expected = << 2, -2, 8 >>
  /\ Len(ret.audio) = 6

\* ==================================================================== C3
\* C3: when start() fails (the stream cannot be constructed or activated),
\* CaptureState and the stream-handle slot hold what they held at the call,
\* the newly constructed stream is not retained, the state is not
\* Recording, and the controller is ready for another start().
C3_FailedStartIsNonDestructive ==
  (ev \in { "StartBuild", "StartPlay" } /\ ret.op = "start" /\ ~ret.ok)
    => /\ state = pre.state
       /\ stream = pre.stream
       /\ newStream = 0
       /\ live \subseteq { stream }
       /\ state # "Recording"
       /\ cpc = "idle" /\ alive

\* Activation fails for a start() issued while Paused with a stream held.
C3_Witness ==
  /\ ev = "StartPlay" /\ ret.op = "start" /\ ~ret.ok
  /\ pre.state = "Paused" /\ pre.stream # 0 /\ built = 2

\* ==================================================================== C4
\* C4: between operations the controller holds a stream handle if and only
\* if some start() has returned success and no stop(), stop_stream() or
\* destruction has happened since.
C4_HandleIffStarted == (cpc = "idle") => ((stream # 0) <=> started)

\* ==================================================================== C5
\* C5: every change of CaptureState made by a controller operation is a
\* transition of the specified state machine; in particular Idle never
\* becomes Paused and resume() yields Recording only from Paused.
SpecifiedTransitions ==
  { << "Idle", "start", "Recording" >>,
    << "Recording", "pause", "Paused" >>,
    << "Paused", "resume", "Recording" >>,
    << "Recording", "stop", "Idle" >>,
    << "Paused", "stop", "Idle" >>,
    << "Recording", "stop_stream", "Idle" >>,
    << "Paused", "stop_stream", "Idle" >>,
    << "Recording", "drop", "Idle" >>,
    << "Paused", "drop", "Idle" >> }

\* pre.state is the state at the call; only the control thread writes it.
C5_OnlySpecifiedTransitions ==
  (state # pre.state) => << pre.state, pre.op, state >> \in SpecifiedTransitions

\* ==================================================================== C6
\* C6: start() called while Recording returns success and changes nothing:
\* no step of it touches the buffer, CaptureState or the stream handle, and
\* no stream is constructed.
C6_StartWhileRecordingIsNoop ==
  [][ (ev' \in StartSteps /\ pre'.state = "Recording")
        => /\ buffer' = buffer /\ state' = state /\ stream' = stream
           /\ built' = built /\ live' = live
           /\ ev' \in { "StartLockState", "StartCheck" }
           /\ (ev' = "StartCheck"
                 => ret'.op = "start" /\ ret'.ok /\ cpc' = "idle") ]_vars

C6_Witness ==
  /\ ev = "StartCheck" /\ ret.op = "start" /\ ret.ok
  /\ pre.state = "Recording" /\ state = "Recording"
  /\ Len(buffer) > 0 /\ stream # 0

\* ==================================================================== C7
\* C7: a start() that succeeds from a state other than Recording ends with
\* CaptureState Recording and a live stream held, and no sample that was in
\* the buffer at the call is in the buffer afterwards.
C7_FreshStartClears ==
  (ev = "StartSet")
    => /\ ret.op = "start" /\ ret.ok
       /\ pre.state # "Recording"
       /\ state = "Recording"
       /\ stream # 0 /\ stream \in live
       /\ BufIds(buffer) \cap pre.ids = {}

\* Audio retained by stop_stream() was in the buffer at the call.
C7_Witness ==
  /\ ev = "StartSet" /\ pre.state = "Idle" /\ pre.ids # {} /\ built = 2

\* ==================================================================== C8
\* C8: stop() in any state returns success with CaptureState Idle and no
\* stream handle held; what it returns is the encoding of the whole buffer
\* as it stood at the drain, and the drain leaves the buffer empty.
C8_StopDrainsAndTearsDown ==
  [][ (ev' = "StopTake")
        => /\ ret'.op = "stop" /\ ret'.ok /\ cpc' = "idle"
           /\ state' = "Idle" /\ stream' = 0
           /\ ret'.audio = SamplesToPcm(Values(buffer))
           /\ buffer' = << >> ]_vars

C8_Witness ==
  /\ ev = "StopTake" /\ ret.op = "stop" /\ pre.state = "Paused"
  /\ Len(ret.audio) = 6 /\ pre.stream # 0

\* ==================================================================== C9
\* C9: every drain (stop() or take_buffered_audio()) returns, without
\* error, exactly 2 bytes per sample that was in the buffer when the drain
\* took it; over an empty buffer the result is zero-length.
C9_DrainLengthIsTwicePerSample ==
  [][ (ev' \in DrainSteps)
        => /\ ret'.ok
           /\ Len(ret'.audio) = 2 * Len(buffer) ]_vars

C9_Witness ==
  /\ ev = "TakeTake" /\ ret.op = "take_buffered_audio"
  /\ Len(ret.audio) = 8 /\ state = "Recording"

\* =================================================================== C10
\* C10: stop_stream() sets CaptureState to Idle and releases the stream
\* handle, and no step of it touches the buffer; a take_buffered_audio()
\* after stop_stream(), with no start() and no drain in between, returns
\* the encoding of every sample queued during that session.
C10_StopStreamRetainsBuffer ==
  [][ /\ (ev' \in StopStreamSteps) => buffer' = buffer
      /\ (ev' = "StopStreamDrop")
           => /\ ret'.op = "stop_stream" /\ ret'.ok
              /\ state' = "Idle" /\ stream' = 0 /\ live' = {}
      /\ (ev' = "TakeTake" /\ sess'.phase = "taken")
           => ret'.audio = SamplesToPcm(sess.queued) ]_vars

C10_Witness ==
  /\ ev = "TakeTake" /\ sess.phase = "taken"
  /\ sess.queued = << 2, -2, 8 >>
  /\ Len(ret.audio) = 6 /\ state = "Idle" /\ stream = 0


\* =================================================================== C12
PauseResumeSteps == { "PauseLockState", "PauseSet", "ResumeLockState",
                      "ResumeSet" }

\* C12: pause() and resume() change only CaptureState: no step of either
\* touches the stream handle, the host's streams (the stream keeps running)
\* or the samples in the buffer.
C12_PauseResumeTouchOnlyState ==
  [][ (ev' \in PauseResumeSteps)
        => /\ stream' = stream /\ live' = live /\ relCount' = relCount
           /\ buffer' = buffer
           /\ (ev' = "PauseSet" => state' = "Paused" /\ ret'.ok)
           /\ (ev' = "ResumeSet" => state' = "Recording" /\ ret'.ok) ]_vars

\* pause() returned with the stream still live and the queued samples kept.
C12_Witness ==
  /\ ev = "PauseSet" /\ pre.state = "Recording" /\ state = "Paused"
  /\ stream # 0 /\ stream \in live /\ Len(buffer) = 3

\* =================================================================== C13
\* C13: once the controller has been destroyed, whatever the state before,
\* CaptureState is Idle, the stream handle is released and no stream of the
\* controller is live, and no callback invocation starts any more.
C13_DropTearsDown ==
  (~alive)
    => /\ state = "Idle" /\ stream = 0 /\ live = {}
       /\ ev \notin { "CbLockState" }

\* Destroyed while Recording with a stream held and samples queued.
C13_Witness ==
  /\ ~alive /\ ev = "DropStream" /\ pre.state = "Recording"
  /\ pre.stream # 0 /\ Len(buffer) > 0

\* =================================================================== C15
\* Positions at which a thread waits for a mutex, and the mutex it waits for.
CtlWaitsFor ==
  IF cpc \in { "start_clear_lock", "stop_take_lock" } THEN "buffer"
  ELSE IF cpc = "start_set_lock" THEN "state" ELSE "none"
CbWaitsFor(s) == IF cb[s].pc = "want_buf" THEN "buffer" ELSE "none"
Holder(l) == IF l = "state" THEN stateLock ELSE bufLock
Threads == { Ctl } \cup { CbThread(s) : s \in StreamIds }

\* Positions of the control thread just before it has the host construct,
\* activate or release a stream.
HostCallPcs == { "start_build", "start_play", "start_store", "stop_drop",
                 "stop_stream_drop", "drop_stream" }

\* The control thread and a callback each wait for a mutex the other holds.
CtlCbDeadlock ==
  \E s \in StreamIds :
    /\ CtlWaitsFor # "none" /\ Holder(CtlWaitsFor) = CbThread(s)
    /\ CbWaitsFor(s) # "none" /\ Holder(CbWaitsFor(s)) = Ctl

\* C15: no thread holds the state mutex and the buffer mutex together; the
\* control thread holds neither while it has a stream constructed,
\* activated or released; a thread that holds a mutex is not waiting for
\* one; and the control thread and a callback never wait for each other.
C15_LocksNeverNested ==
  /\ \A th \in Threads : ~(stateLock = th /\ bufLock = th)
  /\ cpc \in HostCallPcs => (stateLock # Ctl /\ bufLock # Ctl)
  /\ (stateLock = Ctl \/ bufLock = Ctl) => CtlWaitsFor = "none"
  /\ \A s \in StreamIds :
       (stateLock = CbThread(s) \/ bufLock = CbThread(s))
         => CbWaitsFor(s) = "none"
  /\ ~CtlCbDeadlock

\* The control thread waits for the state mutex held by the new stream's
\* callback while the old stream's callback holds the buffer mutex.
C15_Witness ==
  /\ CtlWaitsFor = "state" /\ stateLock # Free /\ bufLock # Free
  /\ stateLock # bufLock

\* =================================================================== C11
IsPrefix(a, b) == Len(a) <= Len(b) /\ a = SubSeq(b, 1, Len(a))

\* C11: take_buffered_audio() changes neither CaptureState nor self.stream,
\* whatever the state, and releases no stream, so that a stream recording
\* at the call is still live and recording at the return.  What is
\* appended afterwards stays queued, in order, until the next drain, and
\* that drain returns the encoding of everything queued: only a drain or
\* the clear of a fresh start() removes samples from the buffer.
C11_TakeLeavesStateAndStream ==
  [][ /\ (ev' \in { "TakeLockBuf", "TakeTake" })
           => /\ state' = state /\ stream' = stream
              /\ live' = live /\ relCount' = relCount
      /\ (ev' = "TakeTake") => ret'.ok
      /\ (ev' \in DrainEvents)
           => /\ ret'.audio = SamplesToPcm(Values(buffer))
              /\ buffer' = << >>
      /\ (ev' \notin DrainEvents \cup { "StartClear" })
           => IsPrefix(buffer, buffer') ]_vars

\* A take made while Recording has returned chunk 1; the stream is still
\* live, the state still Recording, and chunk 2, appended since, is queued.
C11_Witness ==
  /\ ev = "CbAppend" /\ ret.op = "take_buffered_audio"
  /\ pre.state = "Recording" /\ state = "Recording"
  /\ stream = 1 /\ stream \in live /\ pre.ids = { 1 }
  /\ ret.audio = SamplesToPcm(<< 2, -2 >>)
  /\ Values(buffer) = << 8 >> /\ BufIds(buffer) = { 2 }

\* =================================================================== C14
\* The places of the buffer that hold samples of chunk c.
PlacesOf(buf, c) == { i \in 1..Len(buf) : buf[i].id = c }

\* Chunk c lies in the buffer once, whole and unbroken.
WholeIn(buf, c) ==
  \E lo \in 1..Len(buf) : \E chunk \in Chunks :
    /\ PlacesOf(buf, c) = lo..(lo + Len(chunk) - 1)
    /\ lo + Len(chunk) - 1 <= Len(buf)
    /\ \A k \in 1..Len(chunk) : buf[lo + k - 1].v = chunk[k]

\* C14: under every interleaving of the callback with the control thread's
\* drains and clears, a chunk is in at most one drained AudioData, a chunk
\* that was drained is not in the buffer as well (so a chunk caught by a
\* stop()/start() boundary is in the outgoing drain or in the buffer of the
\* next session, never both), a chunk in the buffer is there once, whole and
\* unbroken, and a chunk still held by a callback is neither queued nor
\* drained yet.
C14_NoChunkCorruptedOrDuplicated ==
  /\ \A c \in ChunkIds :
       /\ drains[c] <= 1
       /\ drains[c] = 1 => c \notin BufIds(buffer)
  /\ \A c \in BufIds(buffer) : WholeIn(buffer, c)
  /\ \A s \in StreamIds :
       cb[s].pc # "idle"
         => cb[s].id \notin BufIds(buffer) /\ drains[cb[s].id] = 0

\* Chunk 2 passed the gate on the first stream, outlived the drain of chunk 1
\* and the release of that stream, and is appended after the clear of the
\* next start(): it is in the next session's buffer and in no drain.
C14_Witness ==
  /\ ev = "CbAppend" /\ cpc = "start_build" /\ built = 1 /\ live = {}
  /\ ret.op = "none" /\ pre.op = "start"
  /\ drains[1] = 1 /\ drains[2] = 0 /\ BufIds(buffer) = { 2 }

\* =================================================================== C16
NeverFailOps == { "stop", "stop_stream", "pause", "resume",
                  "take_buffered_audio", "state", "buffer_duration_ms" }

\* C16: stop(), stop_stream(), pause(), resume(), take_buffered_audio(),
\* state() and buffer_duration_ms() return normally from every state and for
\* every accepted configuration: none returns an error and none aborts.
C16_NeverFail == ret.op \in NeverFailOps => ret.ok

C16_Witness ==
  /\ ev = "DurationRead" /\ ret.op = "buffer_duration_ms" /\ ret.ok
  /\ config = [ sample_rate |-> 375, channels |-> 1 ]
  /\ state = "Paused" /\ stream = 0 /\ Len(buffer) = 3 /\ ret.value = 8

\* =================================================================== C17
\* C17: a buffer_duration_ms() called as the very next step after
\* construction, or after the drain of a stop() or a take_buffered_audio()
\* made in any state, returns 0.
C17_ZeroAfterConstructionAndDrain ==
  (ev = "DurationRead" /\ pre.after \in { "Init", "StopTake", "TakeTake" })
    => ret.ok /\ ret.value = 0

\* The call follows a take made while Recording, with the stream still live
\* and chunk 2 already past the gate, waiting for the buffer.
C17_Witness ==
  /\ ev = "DurationRead" /\ pre.after = "TakeTake" /\ state = "Recording"
  /\ stream = 1 /\ stream \in live /\ nchunks = 2
  /\ cb[1].pc = "want_buf" /\ cb[1].id = 2 /\ ret.value = 0

\* =================================================================== C18
\* C18 as stated: of two buffer_duration_ms() calls between which the state
\* has stayed Recording, the later returns at least what the earlier did.
C18_MonotoneWhileRecording ==
  (ev = "DurationRead" /\ ret.earlier >= 0) => ret.value >= ret.earlier

\* C18, amended: of two buffer_duration_ms() calls between which the state
\* has stayed Recording and no take_buffered_audio() has drained the buffer,
\* the later returns at least what the earlier did.
C18_MonotoneWhileRecordingNoDrain ==
  (ev = "DurationRead" /\ ret.earlier >= 0 /\ ~ret.drainedSince)
    => ret.value >= ret.earlier

C18_Witness ==
  /\ ev = "DurationRead" /\ state = "Recording" /\ ~ret.drainedSince
  /\ ret.earlier = 2 /\ ret.value = 4 /\ Len(buffer) = 3

\* =================================================================== C19
\* C19: buffer_duration_ms() returns the quotient, rounded down, of 1000
\* times the number of samples in the buffer at the read by the product of
\* the requested sample_rate and channels.
C19_DurationIsFloorOfQuotient ==
  (ev = "DurationRead")
    => LET d == config.sample_rate * config.channels
           n == Len(buffer) * 1000
       IN  /\ ret.ok
           /\ ret.value * d <= n /\ n < (ret.value + 1) * d
           /\ ret.value = n \div d

C19_Witness ==
  /\ ev = "DurationRead"
  /\ config = [ sample_rate |-> 375, channels |-> 2 ]
  /\ Len(buffer) = 5 /\ ret.value = 6

\* =================================================================== C20
\* i16::from_le_bytes, as the repository's test decodes the output.
FromLeBytes(lo, hi) ==
  LET u == lo + 256 * hi
  IN  IF u >= 32768 THEN u - 65536 ELSE u

\* C20: the encoding of a sample sequence has exactly two bytes per sample,
\* and the two bytes at the place of sample i are the little-endian 16-bit
\* encoding of sample i, clamped and scaled: the order is kept.
C20_TwoBytesPerSampleInOrder ==
  [][ (ev' = "TakeTake")
        => /\ Len(ret'.audio) = 2 * Len(buffer)
           /\ \A i \in 1..Len(buffer) :
                /\ ret'.audio[2 * i - 1] \in 0..255
                /\ ret'.audio[2 * i] \in 0..255
                /\ FromLeBytes(ret'.audio[2 * i - 1], ret'.audio[2 * i])
                     = ToI16(buffer[i].v)
                /\ << ret'.audio[2 * i - 1], ret'.audio[2 * i] >>
                     = ToLeBytes(ToI16(buffer[i].v)) ]_vars

\* The samples 0.0, 0.5, -0.5 of the repository's test: 0, 16383, -16383.
C20_Witness ==
  /\ ev = "TakeTake" /\ pre.ids = { 1 }
  /\ ret.audio = << 0, 0, 255, 63, 1, 192 >>

\* =================================================================== C21
\* The 16-bit value the encoder is to give each sample value (quarters):
\* 0.0, 0.25, 0.5, 1.0 and 2.0, and their negatives.
Pcm16Of(q) ==
  CASE q = 0 -> 0
    [] q = 1 -> 8191      [] q = -1 -> -8191
    [] q = 2 -> 16383     [] q = -2 -> -16383
    [] q = 4 -> 32767     [] q = -4 -> -32767
    [] q > 4 -> 32767     [] q < -4 -> -32767

\* C21: each sample is encoded as the two little-endian bytes of
\* trunc_toward_zero(clamp(s, -1.0, 1.0) * 32767): 0.0 gives 0, 1.0 gives
\* 32767, -1.0 gives -32767, 0.5 gives 16383, -0.5 gives -16383, a sample
\* beyond 1.0 or -1.0 encodes as 1.0 or -1.0, and every encoded value lies
\* in [-32767, 32767].
C21_ClampScaleTruncate ==
  [][ (ev' = "TakeTake")
        => \A i \in 1..Len(buffer) :
             LET lo == ret'.audio[2 * i - 1]
                 hi == ret'.audio[2 * i]
                 u == lo + 256 * hi
                 v == IF u >= 32768 THEN u - 65536 ELSE u
             IN  /\ lo \in 0..255 /\ hi \in 0..255
                 /\ v = Pcm16Of(buffer[i].v)
                 /\ v >= -32767 /\ v <= 32767 ]_vars

\* The samples 2.0, -2.0 and -0.5: 32767, -32767 and -16383.
C21_Witness ==
  /\ ev = "TakeTake" /\ pre.ids = { 1 }
  /\ ret.audio = << 255, 127, 1, 128, 1, 192 >>

\* =================================================================== C22
\* Configuration i of the enumeration meets the three conditions.
Suits(i) ==
  LET c == neg.supported[i]
  IN  /\ c.channels = neg.req.channels
      /\ c.format = "F32"
      /\ c.min <= neg.req.sample_rate /\ neg.req.sample_rate <= c.max

Suiting == { i \in 1..Len(neg.supported) : Suits(i) }

\* C22: with no default input device negotiation fails with the
\* no-input-device error; with a device and its enumeration, it picks the
\* first configuration, in enumeration order, with the requested channel
\* count, 32-bit float samples and a rate range that contains the requested
\* rate, and resolves to exactly the requested rate and channel count; it
\* fails with the no-supported-config error if and only if no configuration
\* meets the three conditions.
C22_NegotiationPicksFirstMatch ==
  (ev = "WithConfig")
    => /\ ~neg.device => neg.phase = "failed" /\ neg.err = "no_device"
       /\ (neg.device /\ neg.listing)
            => /\ Suiting # {}
                    => /\ neg.phase = "built" /\ neg.err = "none"
                       /\ neg.picked \in Suiting
                       /\ \A j \in Suiting : neg.picked <= j
                       /\ neg.resolved = neg.req
                       /\ config = neg.req
               /\ (neg.err = "no_supported_config") <=> (Suiting = {})
               /\ Suiting = {} => neg.phase = "failed"

\* The first configuration has the channels and the rate but 16-bit
\* samples; the second one is picked.
C22_Witness ==
  /\ ev = "WithConfig" /\ neg.phase = "built" /\ neg.picked = 2
  /\ neg.req = [ sample_rate |-> 16000, channels |-> 1 ]
  /\ neg.supported[1] = [ channels |-> 1, format |-> "I16", min |-> 8000,
                          max |-> 16000 ]
  /\ neg.supported[2].min = 16000 /\ neg.supported[2].max = 48000

\* =================================================================== C23
\* C23: construction either fails with an error, and then there is no
\* controller and no operation ever runs, or it yields a controller that is
\* Idle, with an empty buffer and no stream handle; no stream is constructed
\* by anything but a start().
C23_ConstructionYieldsIdleController ==
  [][ /\ (ev' = "WithConfig")
           => IF neg'.phase = "built"
              THEN /\ alive' /\ state' = "Idle" /\ buffer' = << >>
                   /\ stream' = 0 /\ built' = 0 /\ live' = {}
                   /\ neg'.err = "none"
              ELSE /\ neg'.phase = "failed" /\ ~alive'
                   /\ neg'.err \in { "no_device", "configs_failed",
                                     "no_supported_config" }
      /\ (neg.phase = "failed") => FALSE
      /\ (neg.phase = "requested") => ev' = "WithConfig"
      /\ (built' # built) => (ev' = "StartBuild" /\ pre.op = "start") ]_vars

\* The first start() of a constructed controller has built the first stream.
C23_Witness ==
  /\ neg.phase = "built" /\ ev = "StartBuild" /\ built = 1 /\ alive
  /\ neg.err = "none"

\* =================================================================== C24
\* The steps that release a stream according to the claim: the failed
\* activation inside start(), and the drop of self.stream in stop(),
\* stop_stream() and the destructor.
TeardownEvents == { "StartPlay", "StopDrop", "StopStreamDrop", "DropStream" }

\* C24: every stream start() constructs is released exactly once, by the
\* failed activation before start() returns or by the stop(), stop_stream()
\* or destruction that ends its session; a start() that returns leaves no
\* stream live but the one it retained, and after destruction no stream is
\* live.
C24_ReleasedOnceByTeardown ==
  [][ /\ \A s \in StreamIds :
           (relCount'[s] # relCount[s])
             => /\ relCount[s] = 0 /\ relCount'[s] = 1
                /\ s \in live /\ s \notin live'
                /\ ev' \in TeardownEvents
      /\ (cpc # "idle" /\ cpc' = "idle" /\ pre.op = "start")
           => live' \subseteq { stream' }
      /\ (ev' = "DropStream") => live' = {} ]_vars

\* =================================================================== C25
\* The steps at which a controller operation takes effect on the state or
\* on the buffer.
ControllerEffects ==
  { "PauseSet", "StopSetIdle", "StopStreamSetIdle", "StopTake", "TakeTake",
    "StartClear" }

\* C25: once a callback invocation has read CaptureState = Recording, no
\* pause, stop, stop_stream, take_buffered_audio or clear of start() takes
\* effect before that invocation has appended its chunk.
C25_CheckAndAppendOneSection ==
  [][ (\E s \in StreamIds : cb[s].pc \in { "want_buf", "append" })
        => ev' \notin ControllerEffects ]_vars

\* =================================================================== C28
\* C28: between operations of a constructed controller, a state of
\* Recording or Paused implies that a stream handle is held.
C28_ActiveStateHoldsStream ==
  (alive /\ cpc = "idle" /\ state \in { "Recording", "Paused" })
    => stream # 0

\* =================================================================== C30
\* C30: at every instant at most one constructed stream is live.
C30_AtMostOneLiveStream == Cardinality(live) <= 1

\* =================================================================== C29
\* start() past its clear: from build_input_stream to the write of the state.
StartPastClear ==
  { "start_build", "start_play", "start_store", "start_set_lock",
    "start_set" }

\* C29: with no append concurrent to it, a start() called in a state other
\* than Recording has emptied the buffer before it attempts to construct
\* the stream, and the buffer is empty when the call returns, with Ok or
\* with an error, whatever was queued at the call.
C29_StartEmptiesBeforeBuild ==
  /\ (cpc \in StartPastClear) => buffer = << >>
  /\ (/\ cpc = "idle" /\ ret.op = "start" /\ pre.op = "start"
      /\ ev \in { "StartBuild", "StartPlay", "StartSet" }
      /\ pre.state # "Recording")
       => buffer = << >>

\* A start() after a stop_stream() that retained audio fails at
\* construction: the audio is gone, the state still Idle.
C29_Witness ==
  /\ cpc = "idle" /\ ev = "StartBuild" /\ ret.op = "start" /\ ~ret.ok
  /\ pre.op = "start" /\ pre.state = "Idle" /\ pre.ids # {}
  /\ buffer = << >> /\ state = "Idle" /\ stream = 0

\* =================================================================== C26
\* C26: under every interleaving, the buffer is a concatenation of whole
\* chunks and every drain returns the encoding of all of it, so a drained
\* AudioData never holds part of a chunk; and of two chunks delivered by the
\* same stream, the earlier one lies before the later one when both are
\* queued, is no longer queued once the later one has been drained, and has
\* left the callback before the later one is queued or drained, so that
\* within a drain and from one drain to the next they keep delivery order.
C26_WholeChunksInDeliveryOrder ==
  [][ /\ \A c \in BufIds(buffer') : WholeIn(buffer', c)
      /\ \A c, d \in ChunkIds :
           (c < d /\ origin'[c] # 0 /\ origin'[c] = origin'[d])
             => /\ \A i \in PlacesOf(buffer', c), j \in PlacesOf(buffer', d) :
                     i < j
                /\ (drains'[d] >= 1) => c \notin BufIds(buffer')
                /\ (d \in BufIds(buffer') \/ drains'[d] >= 1)
                     => \A s \in StreamIds :
                          cb'[s].pc = "idle" \/ cb'[s].id # c
      /\ (ev' \in DrainEvents)
           => /\ Len(ret'.audio) = 2 * Len(buffer)
              /\ buffer' = << >>
              /\ \A i \in 1..Len(buffer) :
                   FromLeBytes(ret'.audio[2 * i - 1], ret'.audio[2 * i])
                     = Pcm16Of(buffer[i].v) ]_vars

\* One stream delivered chunk 1 (0.5, -0.5) and then chunk 2 (2.0); a
\* single take_buffered_audio() returns them whole and in that order.
C26_Witness ==
  /\ ev = "TakeTake" /\ origin[1] = 1 /\ origin[2] = 1
  /\ drains[1] = 1 /\ drains[2] = 1
  /\ ret.audio = << 255, 63, 1, 192, 255, 127 >>

\* =================================================================== C27
\* C27: under fair scheduling every operation of the control thread and
\* every invocation of the callback completes, and every lock that is held
\* becomes free; a lock is held for one step of its holder only: it is
\* released by the holder's next step, which for the callback's buffer lock
\* is the append.
C27_EveryInvocationCompletes ==
  /\ (cpc # "idle") ~> (cpc = "idle")
  /\ \A s \in StreamIds : (cb[s].pc # "idle") ~> (cb[s].pc = "idle")
  /\ (stateLock # Free) ~> (stateLock = Free)
  /\ (bufLock # Free) ~> (bufLock = Free)
  /\ [][ /\ (stateLock = Ctl /\ cpc' # cpc) => stateLock' = Free
         /\ (bufLock = Ctl /\ cpc' # cpc) => bufLock' = Free
         /\ \A s \in StreamIds :
              /\ (stateLock = CbThread(s) /\ cb'[s] # cb[s])
                   => stateLock' = Free
              /\ (bufLock = CbThread(s) /\ cb'[s] # cb[s])
                   => (ev' = "CbAppend" /\ bufLock' = Free) ]_vars

\* The callback has read Recording and waits for the buffer lock, which
\* take_buffered_audio() holds.
C27_Witness ==
  /\ cb[1].pc = "want_buf" /\ bufLock = Ctl /\ cpc = "take_take"

\* =================================================================== C31
\* The stream a start() in progress has built: the local `stream` until it
\* is stored, self.stream from then on (0: none built yet).
StreamOfStart ==
  IF newStream # 0 THEN newStream
  ELSE IF cpc \in { "start_set_lock", "start_set" } THEN stream
  ELSE 0

\* C31: while a start() is between its clear and its write of the state,
\* CaptureState is not Recording; the stream is built when start() activates
\* it and not stored yet, and is built and stored when start() goes on to
\* write the state; when that write has been made the state is Recording
\* and the stored stream is live; and no callback invocation of the stream
\* being started has passed the gate before that write.
C31_RecordingOnlyAfterStore ==
  /\ (cpc \in StartPastClear) => state # "Recording" /\ state = pre.state
  /\ (cpc \in { "start_play", "start_store" })
       => /\ newStream \in live /\ newStream = built
          /\ stream # newStream
  /\ (cpc \in { "start_set_lock", "start_set" })
       => stream \in live /\ stream = built /\ newStream = 0
  /\ (ev = "StartSet")
       => state = "Recording" /\ stream \in live /\ stream = built
  /\ (cpc \in StartPastClear /\ StreamOfStart # 0)
       => cb[StreamOfStart].pc \notin { "want_buf", "append" }

\* The stored stream's callback has read the state, still Idle, before
\* start() wrote Recording: the chunk was dropped.
C31_Witness ==
  /\ ev = "CbCheck" /\ cpc = "start_set_lock" /\ stream = 1
  /\ state = "Idle" /\ nchunks = 1 /\ cb[1] = CbIdle /\ buffer = << >>

\* =================================================================== C32
\* The steps of state() and of buffer_duration_ms().
ReadOnlySteps ==
  { "StateLockState", "StateRead", "DurationLockBuf", "DurationRead" }

\* C32: no step of state() or buffer_duration_ms() changes CaptureState, the
\* buffer, the stream handle or the host's streams, and state() returns the
\* value CaptureState has at the step that reads it under the lock, between
\* the call and the return, which is also the value it had at the call.
C32_ObserversAreReadOnly ==
  [][ (ev' \in ReadOnlySteps)
        => /\ state' = state /\ buffer' = buffer /\ stream' = stream
           /\ live' = live /\ relCount' = relCount /\ config' = config
           /\ (ev' = "StateRead")
                => /\ ret'.op = "state" /\ pre.op = "state"
                   /\ ret'.seen = state /\ ret'.seen = pre.state ]_vars

\* state() has returned Paused over a non-empty buffer, both as they were.
C32_Witness ==
  /\ ev = "StateRead" /\ ret.op = "state" /\ ret.seen = "Paused"
  /\ state = "Paused" /\ buffer # << >> /\ cpc = "idle"

\* =================================================================== C33
\* The 16-bit values a byte sequence holds, two bytes each, low byte first.
Decoded(bytes) ==
  [ i \in 1..(Len(bytes) \div 2) |->
      FromLeBytes(bytes[2 * i - 1], bytes[2 * i]) ]

\* C33: the bytes returned so far by the take_buffered_audio() calls and
\* the stop() of a session, concatenated in order and followed by the
\* encoding of what is still queued, are the encoding of all the samples
\* queued in that session in one piece, which holds each sample's 16-bit
\* value at that sample's place; so encode(A ++ B) = encode(A) ++ encode(B)
\* for the drained samples A and the queued samples B.
C33_DrainsConcatenateToOneEncoding ==
  LET all == split.bytes \o SamplesToPcm(Values(buffer))
  IN  /\ all = SamplesToPcm(split.samples)
      /\ Len(all) = 2 * Len(split.samples)
      /\ \A i \in 1..Len(split.samples) :
           Decoded(all)[i] = Pcm16Of(split.samples[i])
      /\ (cpc = "idle" /\ \A s \in StreamIds : cb[s].pc = "idle")
           => split.samples
                = SubSeq(split.samples, 1, Len(split.samples) - Len(buffer))
                    \o Values(buffer)

\* A take_buffered_audio() returned the first sample (1.0), a chunk (0.5,
\* -0.5) was delivered, and stop() returned it: three samples' worth of
\* bytes in two pieces.
C33_Witness ==
  /\ ev = "StopTake" /\ split.samples = << 4, 2, -2 >>
  /\ split.bytes = << 255, 127, 255, 63, 1, 192 >>
  /\ ret.audio = << 255, 63, 1, 192 >> /\ buffer = << >>

\* =================================================================== C34
\* C34: a request has gone upstream only if the incoming method is POST and
\* the key is present, and it carried the Authorization header "Api-Key"
\* with that key; a request with another method is answered 405, and a POST
\* without the key 500, in both cases with the body unread and nothing
\* sent upstream; and the body is read only past both checks.
C34_UpstreamOnlyForPostWithKey ==
  /\ wk.sent => /\ wk.method = "POST" /\ wk.key # "none"
                /\ wk.auth = << "Api-Key", wk.key >>
  /\ wk.bodyRead => wk.method = "POST" /\ wk.key # "none"
  /\ (wk.method # "POST" /\ wk.pc \notin { "none", "method" })
       => /\ wk.pc = "done" /\ wk.status = 405
          /\ ~wk.bodyRead /\ ~wk.sent
  /\ (wk.method = "POST" /\ wk.key = "none"
        /\ wk.pc \notin { "none", "method", "key" })
       => /\ wk.pc = "done" /\ wk.status = 500
          /\ ~wk.bodyRead /\ ~wk.sent

\* A POST with the key k2 and no Content-Type has gone upstream with the
\* header and the default type, and the upstream answer 200 is returned.
C34_Witness ==
  /\ wk.pc = "done" /\ wk.sent /\ wk.bodyRead /\ wk.status = 200
  /\ wk.method = "POST" /\ wk.key = "k2" /\ wk.contentType = "none"
  /\ wk.auth = << "Api-Key", "k2" >> /\ wk.upType = "application/json"

====
